---- MODULE Spec2Model ----
(***************************************************************************)
(* A model of the DFA engine of src/src/utils/dfa-engine.ts: the executor  *)
(* (processString, getSimulationSteps, getNextState, getInvalidSymbols)    *)
(* and the validator (validateDFA).                                        *)
(*                                                                         *)
(* A JavaScript string is a sequence of UTF-16 code units.  input[i],      *)
(* input.length and input.slice work on code units, while `for (const      *)
(* symbol of input)` walks code points: a high surrogate followed by a low *)
(* surrogate is ONE symbol there.  The model keeps both views: an input is *)
(* a sequence of code units, "H" and "L" stand for a high and a low        *)
(* surrogate, and the two-unit string "HL" is the astral character they    *)
(* form together.                                                          *)
(*                                                                         *)
(* A value that may be null/undefined is a sequence of length 0 or 1.      *)
(***************************************************************************)
EXTENDS Integers, Sequences, FiniteSets, TLC

VARIABLES dfa, input, result, steps, report, returned,
          lookup, invalidList, validString,
          frame, editor, sim

vars == <<dfa, input, result, steps, report, returned,
          lookup, invalidList, validString,
          frame, editor, sim>>

\* What the callers hold of the answers of getNextState, getInvalidSymbols and
\* isValidString
answers == <<lookup, invalidList, validString>>

\* The call that is running step by step (frame), the state of the DFAEditor
\* component next to its dfa (editor) and of the DFASimulator component (sim)
components == <<frame, editor, sim>>

-----------------------------------------------------------------------------
(* Bounds and domains *)

MaxInputLen == 2
MaxTransitions == 2
MaxStates == 2
MaxAlphabet == 2
MaxExisting == 3
MaxEditorStates == 2
MaxEditorTransitions == 2
MaxClicks == 3

StateIds == {"q0", "q1"}
CodeUnits == {"a", "H", "L"}
Symbols == {"a", "HL"}

Null == <<>>
Some(x) == <<x>>

SeqsUpTo(S, n) == UNION {[1..k -> S] : k \in 0..n}

Min(S) == CHOOSE x \in S : \A y \in S : x <= y
\* Math.min of two numbers
MinOf(a, b) == IF a <= b THEN a ELSE b

-----------------------------------------------------------------------------
(* Strings *)

IsHighSurrogate(u) == u = "H"
IsLowSurrogate(u) == u = "L"

\* The string iterator: the symbols `for (const symbol of input)` yields.
RECURSIVE CodePoints(_)
CodePoints(s) ==
    IF Len(s) = 0 THEN <<>>
    ELSE IF Len(s) >= 2 /\ IsHighSurrogate(s[1]) /\ IsLowSurrogate(s[2])
         THEN <<s[1] \o s[2]>> \o CodePoints(SubSeq(s, 3, Len(s)))
         ELSE <<s[1]>> \o CodePoints(SubSeq(s, 2, Len(s)))

\* input.slice(i), i a 0-based code-unit index with 0 <= i <= input.length
Slice(s, i) == SubSeq(s, i + 1, Len(s))

\* Array.prototype.join
RECURSIVE Join(_, _)
Join(xs, sep) ==
    IF Len(xs) = 0 THEN ""
    ELSE IF Len(xs) = 1 THEN xs[1]
    ELSE xs[1] \o sep \o Join(Tail(xs), sep)

\* Array.prototype.includes
Includes(xs, x) == \E k \in 1..Len(xs) : xs[k] = x

-----------------------------------------------------------------------------
(* The executor *)

\* Mutant: the last matching transition is taken (as a Map filled in list
\* order would give), not the first.
GetNextState_LastMatch(d, currentStateId, symbol) ==
    LET hits == {k \in 1..Len(d.transitions) :
                    /\ d.transitions[k].fromStateId = currentStateId
                    /\ d.transitions[k].symbol = symbol}
    IN  IF hits = {} THEN Null
        ELSE Some(d.transitions[CHOOSE k \in hits : \A j \in hits : j <= k].toStateId)

\* transitions.find(t => t.fromStateId === currentStateId && t.symbol === symbol)
GetNextState(d, currentStateId, symbol) ==
    LET hits == {k \in 1..Len(d.transitions) :
                    /\ d.transitions[k].fromStateId = currentStateId
                    /\ d.transitions[k].symbol = symbol}
    IN  IF hits = {} THEN Null ELSE Some(d.transitions[Min(hits)].toStateId)

\* Mutant: a symbol is listed every time it is met (the includes test is
\* missing).
RECURSIVE InvalidSymbolsLoop_ListsRepeats(_, _, _)
InvalidSymbolsLoop_ListsRepeats(alphabetSet, symbols, invalidSymbols) ==
    IF Len(symbols) = 0 THEN invalidSymbols
    ELSE LET symbol == Head(symbols)
         IN  IF symbol \notin alphabetSet
             THEN InvalidSymbolsLoop_ListsRepeats(alphabetSet, Tail(symbols),
                                                  Append(invalidSymbols, symbol))
             ELSE InvalidSymbolsLoop_ListsRepeats(alphabetSet, Tail(symbols),
                                                  invalidSymbols)

RECURSIVE InvalidSymbolsLoop(_, _, _)
InvalidSymbolsLoop(alphabetSet, symbols, invalidSymbols) ==
    IF Len(symbols) = 0 THEN invalidSymbols
    ELSE LET symbol == Head(symbols)
         IN  IF symbol \notin alphabetSet /\ ~Includes(invalidSymbols, symbol)
             THEN InvalidSymbolsLoop(alphabetSet, Tail(symbols), Append(invalidSymbols, symbol))
             ELSE InvalidSymbolsLoop(alphabetSet, Tail(symbols), invalidSymbols)

GetInvalidSymbols(d, s) ==
    LET alphabetSet == {d.alphabet[k] : k \in 1..Len(d.alphabet)}
    IN  InvalidSymbolsLoop(alphabetSet, CodePoints(s), <<>>)

IsValidString(d, s) == Len(GetInvalidSymbols(d, s)) = 0

\* Mutant: the early return already holds the initial state in its path.
InvalidSymbolsResult_WithPath(d, s, invalidSymbols) ==
    [accepted |-> FALSE,
     inputString |-> s,
     path |-> <<d.initialStateId>>,
     currentState |-> d.initialStateId,
     remainingInput |-> s,
     error |-> Some("Invalid symbols in input: " \o Join(invalidSymbols, ", "))]

InvalidSymbolsResult(d, s, invalidSymbols) ==
    [accepted |-> FALSE,
     inputString |-> s,
     path |-> <<>>,
     currentState |-> d.initialStateId,
     remainingInput |-> s,
     error |-> Some("Invalid symbols in input: " \o Join(invalidSymbols, ", "))]

\* Mutant: the state is pushed on the path once more before the failure returns.
NoTransitionResult_PathPushed(d, s, i, currentStateId, path) ==
    [accepted |-> FALSE,
     inputString |-> s,
     path |-> Append(path, currentStateId),
     currentState |-> currentStateId,
     remainingInput |-> Slice(s, i),
     error |-> Some("No transition found from state '" \o currentStateId
                    \o "' with symbol '" \o s[i + 1] \o "'")]

\* Mutant: the remaining input leaves out the failing symbol (slice(i + 1)).
NoTransitionResult_SliceNext(d, s, i, currentStateId, path) ==
    [accepted |-> FALSE,
     inputString |-> s,
     path |-> path,
     currentState |-> currentStateId,
     remainingInput |-> Slice(s, i + 1),
     error |-> Some("No transition found from state '" \o currentStateId
                    \o "' with symbol '" \o s[i + 1] \o "'")]

\* Mutant: the failure reports the initial state as the current one.
NoTransitionResult_CurrentFromStart(d, s, i, currentStateId, path) ==
    [accepted |-> FALSE,
     inputString |-> s,
     path |-> path,
     currentState |-> d.initialStateId,
     remainingInput |-> Slice(s, i),
     error |-> Some("No transition found from state '" \o currentStateId
                    \o "' with symbol '" \o s[i + 1] \o "'")]

NoTransitionResult(d, s, i, currentStateId, path) ==
    [accepted |-> FALSE,
     inputString |-> s,
     path |-> path,
     currentState |-> currentStateId,
     remainingInput |-> Slice(s, i),
     error |-> Some("No transition found from state '" \o currentStateId
                    \o "' with symbol '" \o s[i + 1] \o "'")]

\* Mutant: acceptance looks at the initial state, not at the state reached.
FinalResult_InitialAccepting(d, s, currentStateId, path) ==
    LET accepted == Includes(d.acceptingStateIds, d.initialStateId)
    IN  [accepted |-> accepted,
         inputString |-> s,
         path |-> path,
         currentState |-> currentStateId,
         remainingInput |-> <<>>,
         error |-> IF accepted THEN Null
                   ELSE Some("String rejected: ended in non-accepting state '"
                             \o currentStateId \o "'")]

\* Mutant: the rejection message is set whatever the verdict.
FinalResult_ErrorAlways(d, s, currentStateId, path) ==
    [accepted |-> Includes(d.acceptingStateIds, currentStateId),
     inputString |-> s,
     path |-> path,
     currentState |-> currentStateId,
     remainingInput |-> <<>>,
     error |-> Some("String rejected: ended in non-accepting state '"
                    \o currentStateId \o "'")]

\* Mutant: the final result hands back the whole input as remaining.
FinalResult_InputRemaining(d, s, currentStateId, path) ==
    LET accepted == Includes(d.acceptingStateIds, currentStateId)
    IN  [accepted |-> accepted,
         inputString |-> s,
         path |-> path,
         currentState |-> currentStateId,
         remainingInput |-> s,
         error |-> IF accepted THEN Null
                   ELSE Some("String rejected: ended in non-accepting state '"
                             \o currentStateId \o "'")]

FinalResult(d, s, currentStateId, path) ==
    LET accepted == Includes(d.acceptingStateIds, currentStateId)
    IN  [accepted |-> accepted,
         inputString |-> s,
         path |-> path,
         currentState |-> currentStateId,
         remainingInput |-> <<>>,
         error |-> IF accepted THEN Null
                   ELSE Some("String rejected: ended in non-accepting state '"
                             \o currentStateId \o "'")]

\* The for loop of processString, i the 0-based index of the next symbol.
RECURSIVE ProcessLoop(_, _, _, _, _)
ProcessLoop(d, s, i, currentStateId, path) ==
    IF i < Len(s)
    THEN LET nextStateId == GetNextState(d, currentStateId, s[i + 1])
         IN  IF nextStateId = Null
             THEN NoTransitionResult(d, s, i, currentStateId, path)
             ELSE ProcessLoop(d, s, i + 1, nextStateId[1], Append(path, nextStateId[1]))
    ELSE FinalResult(d, s, currentStateId, path)

\* Mutant: the path is not seeded with the initial state.
ProcessString_UnseededPath(d, s) ==
    LET invalidSymbols == GetInvalidSymbols(d, s)
    IN  IF Len(invalidSymbols) > 0
        THEN InvalidSymbolsResult(d, s, invalidSymbols)
        ELSE ProcessLoop(d, s, 0, d.initialStateId, <<>>)

\* Mutant: an empty input is turned away before the walk, as the callers do
\* (`input ? engine.processString(input) : null`).
ProcessString_EmptyInputTurnedAway(d, s) ==
    LET invalidSymbols == GetInvalidSymbols(d, s)
    IN  IF Len(invalidSymbols) > 0 \/ Len(s) = 0
        THEN InvalidSymbolsResult(d, s, invalidSymbols)
        ELSE ProcessLoop(d, s, 0, d.initialStateId, <<d.initialStateId>>)

\* Mutant: the path is kept in the engine between calls, so that a call goes
\* on from the path of the call before it.
ProcessString_PathKeptBetweenCalls(d, s) ==
    LET invalidSymbols == GetInvalidSymbols(d, s)
        kept == IF result = <<>> THEN <<>> ELSE result.path
    IN  IF Len(invalidSymbols) > 0
        THEN InvalidSymbolsResult(d, s, invalidSymbols)
        ELSE ProcessLoop(d, s, 0, d.initialStateId, Append(kept, d.initialStateId))

ProcessString(d, s) ==
    LET invalidSymbols == GetInvalidSymbols(d, s)
    IN  IF Len(invalidSymbols) > 0
        THEN InvalidSymbolsResult(d, s, invalidSymbols)
        ELSE ProcessLoop(d, s, 0, d.initialStateId, <<d.initialStateId>>)

\* Mutant: a step keeps the symbol just consumed in its remaining input
\* (input.slice(i) for input.slice(i + 1)).
RECURSIVE SimulationLoop_RemainingFromCurrent(_, _, _, _, _)
SimulationLoop_RemainingFromCurrent(d, s, i, currentStateId, acc) ==
    IF i < Len(s)
    THEN LET nextStateId == GetNextState(d, currentStateId, s[i + 1])
         IN  IF nextStateId = Null
             THEN acc
             ELSE SimulationLoop_RemainingFromCurrent(d, s, i + 1, nextStateId[1],
                      Append(acc, [stateId |-> nextStateId[1],
                                   symbol |-> Some(s[i + 1]),
                                   remainingInput |-> Slice(s, i),
                                   stepNumber |-> i + 1]))
    ELSE acc

\* Mutant: a symbol without a transition is skipped and the loop goes on
\* (continue for break).
RECURSIVE SimulationLoop_SkipsMissing(_, _, _, _, _)
SimulationLoop_SkipsMissing(d, s, i, currentStateId, acc) ==
    IF i < Len(s)
    THEN LET nextStateId == GetNextState(d, currentStateId, s[i + 1])
         IN  IF nextStateId = Null
             THEN SimulationLoop_SkipsMissing(d, s, i + 1, currentStateId, acc)
             ELSE SimulationLoop_SkipsMissing(d, s, i + 1, nextStateId[1],
                      Append(acc, [stateId |-> nextStateId[1],
                                   symbol |-> Some(s[i + 1]),
                                   remainingInput |-> Slice(s, i + 1),
                                   stepNumber |-> i + 1]))
    ELSE acc

\* The for loop of getSimulationSteps.
RECURSIVE SimulationLoop(_, _, _, _, _)
SimulationLoop(d, s, i, currentStateId, acc) ==
    IF i < Len(s)
    THEN LET nextStateId == GetNextState(d, currentStateId, s[i + 1])
         IN  IF nextStateId = Null
             THEN acc
             ELSE SimulationLoop(d, s, i + 1, nextStateId[1],
                      Append(acc, [stateId |-> nextStateId[1],
                                   symbol |-> Some(s[i + 1]),
                                   remainingInput |-> Slice(s, i + 1),
                                   stepNumber |-> i + 1]))
    ELSE acc

\* Mutant: the trace lacks the initial step.
GetSimulationSteps_NoInitialStep(d, s) ==
    SimulationLoop(d, s, 0, d.initialStateId, <<>>)

\* Mutant: the trace starts from the first listed state, not from initialStateId.
GetSimulationSteps_FromFirstState(d, s) ==
    SimulationLoop(d, s, 0, d.states[1].id,
        <<[stateId |-> d.states[1].id,
           symbol |-> Null,
           remainingInput |-> s,
           stepNumber |-> 0]>>)

GetSimulationSteps(d, s) ==
    SimulationLoop(d, s, 0, d.initialStateId,
        <<[stateId |-> d.initialStateId,
           symbol |-> Null,
           remainingInput |-> s,
           stepNumber |-> 0]>>)

-----------------------------------------------------------------------------
(* processString and getSimulationSteps, one loop test at a time.  lookups *)
(* counts the calls of getNextState.                                       *)

\* Mutant: an initialStateId that names no state makes the call throw.
ProcessStringEnter_ThrowsOnUnknownInitial(d, s) ==
    IF \A k \in 1..Len(d.states) : d.states[k].id # d.initialStateId
    THEN [op |-> "processString", pc |-> "throw", lookups |-> 0]
    ELSE LET invalidSymbols == GetInvalidSymbols(d, s)
         IN  IF Len(invalidSymbols) > 0
             THEN [op |-> "processString",
                   pc |-> "return",
                   lookups |-> 0,
                   value |-> InvalidSymbolsResult(d, s, invalidSymbols)]
             ELSE [op |-> "processString",
                   pc |-> "for",
                   i |-> 0,
                   currentStateId |-> d.initialStateId,
                   path |-> <<d.initialStateId>>,
                   lookups |-> 0]

\* processString up to its loop: the pre-check and its return, or the path
\* seeded with the initial state
ProcessStringEnter(d, s) ==
    LET invalidSymbols == GetInvalidSymbols(d, s)
    IN  IF Len(invalidSymbols) > 0
        THEN [op |-> "processString",
              pc |-> "return",
              lookups |-> 0,
              value |-> InvalidSymbolsResult(d, s, invalidSymbols)]
        ELSE [op |-> "processString",
              pc |-> "for",
              i |-> 0,
              currentStateId |-> d.initialStateId,
              path |-> <<d.initialStateId>>,
              lookups |-> 0]

\* One test of the for condition of processString, with the loop body or the
\* return that follows it
ProcessStringFor(d, s, f) ==
    IF f.i < Len(s)
    THEN LET nextStateId == GetNextState(d, f.currentStateId, s[f.i + 1])
         IN  IF nextStateId = Null
             THEN [op |-> "processString",
                   pc |-> "return",
                   lookups |-> f.lookups + 1,
                   value |-> NoTransitionResult(d, s, f.i, f.currentStateId, f.path)]
             ELSE [f EXCEPT !.i = f.i + 1,
                            !.currentStateId = nextStateId[1],
                            !.path = Append(f.path, nextStateId[1]),
                            !.lookups = f.lookups + 1]
    ELSE [op |-> "processString",
          pc |-> "return",
          lookups |-> f.lookups,
          value |-> FinalResult(d, s, f.currentStateId, f.path)]

\* getSimulationSteps up to its loop: the initial step
GetSimulationStepsEnter(d, s) ==
    [op |-> "getSimulationSteps",
     pc |-> "for",
     i |-> 0,
     currentStateId |-> d.initialStateId,
     steps |-> <<[stateId |-> d.initialStateId,
                  symbol |-> Null,
                  remainingInput |-> s,
                  stepNumber |-> 0]>>,
     lookups |-> 0]

\* One test of the for condition of getSimulationSteps, with the loop body,
\* the break or the return that follows it
GetSimulationStepsFor(d, s, f) ==
    IF f.i < Len(s)
    THEN LET nextStateId == GetNextState(d, f.currentStateId, s[f.i + 1])
         IN  IF nextStateId = Null
             THEN [op |-> "getSimulationSteps",
                   pc |-> "return",
                   lookups |-> f.lookups + 1,
                   value |-> f.steps]
             ELSE [f EXCEPT !.i = f.i + 1,
                            !.currentStateId = nextStateId[1],
                            !.steps = Append(f.steps,
                                          [stateId |-> nextStateId[1],
                                           symbol |-> Some(s[f.i + 1]),
                                           remainingInput |-> Slice(s, f.i + 1),
                                           stepNumber |-> f.i + 1]),
                            !.lookups = f.lookups + 1]
    ELSE [op |-> "getSimulationSteps",
          pc |-> "return",
          lookups |-> f.lookups,
          value |-> f.steps]

-----------------------------------------------------------------------------
(* The validator *)

\* Mutant: every id is taken to name a state.
StateExists_Always(d, id) == TRUE

\* dfa.states.find(s => s.id === id), as a truth value
StateExists(d, id) == \E k \in 1..Len(d.states) : d.states[k].id = id

NoStateErrors(d) ==
    IF Len(d.states) = 0 THEN <<"DFA must have at least one state">> ELSE <<>>

InitialStateErrors(d) ==
    IF ~StateExists(d, d.initialStateId)
    THEN <<"Initial state '" \o d.initialStateId \o "' not found in states">>
    ELSE <<>>

RECURSIVE AcceptingStateErrors(_, _)
AcceptingStateErrors(d, k) ==
    IF k > Len(d.acceptingStateIds) THEN <<>>
    ELSE LET acceptingId == d.acceptingStateIds[k]
         IN  (IF ~StateExists(d, acceptingId)
              THEN <<"Accepting state '" \o acceptingId \o "' not found in states">>
              ELSE <<>>)
             \o AcceptingStateErrors(d, k + 1)

AlphabetWarnings(d) ==
    IF Len(d.alphabet) = 0
    THEN <<"Alphabet is empty - DFA can only accept empty string">>
    ELSE <<>>

RECURSIVE DuplicateStateErrors(_, _, _)
DuplicateStateErrors(d, k, stateIds) ==
    IF k > Len(d.states) THEN <<>>
    ELSE LET state == d.states[k]
         IN  (IF state.id \in stateIds
              THEN <<"Duplicate state ID: '" \o state.id \o "'">>
              ELSE <<>>)
             \o DuplicateStateErrors(d, k + 1, stateIds \cup {state.id})

RECURSIVE TransitionReferenceErrors(_, _)
TransitionReferenceErrors(d, k) ==
    IF k > Len(d.transitions) THEN <<>>
    ELSE LET transition == d.transitions[k]
         IN  (IF ~StateExists(d, transition.fromStateId)
              THEN <<"Transition '" \o transition.id \o "' references non-existent from state '"
                     \o transition.fromStateId \o "'">>
              ELSE <<>>)
             \o (IF ~StateExists(d, transition.toStateId)
                 THEN <<"Transition '" \o transition.id \o "' references non-existent to state '"
                        \o transition.toStateId \o "'">>
                 ELSE <<>>)
             \o (IF ~Includes(d.alphabet, transition.symbol)
                 THEN <<"Transition '" \o transition.id \o "' uses symbol '"
                        \o transition.symbol \o "' not in alphabet">>
                 ELSE <<>>)
             \o TransitionReferenceErrors(d, k + 1)

\* Mutant: the key of the determinism check leaves out the symbol.
TransitionKey_SourceOnly(transition) == transition.fromStateId \o "-"

\* Mutant: the key of the determinism check also holds the destination, so
\* only transitions repeated whole share a key.
TransitionKey_WithDestination(transition) ==
    transition.fromStateId \o "-" \o transition.symbol \o "-" \o transition.toStateId

\* Mutant: the key of the determinism check leaves out the source state.
TransitionKey_SymbolOnly(transition) == "-" \o transition.symbol

\* `${transition.fromStateId}-${transition.symbol}`
TransitionKey(transition) == transition.fromStateId \o "-" \o transition.symbol

\* transitionMap is the Map of the determinism check, a function from keys to
\* destination ids.
RECURSIVE DeterminismErrors(_, _, _)
DeterminismErrors(d, k, transitionMap) ==
    IF k > Len(d.transitions) THEN <<>>
    ELSE LET transition == d.transitions[k]
             key == TransitionKey(transition)
         IN  (IF key \in DOMAIN transitionMap
              THEN <<"Non-deterministic: multiple transitions from state '"
                     \o transition.fromStateId \o "' with symbol '"
                     \o transition.symbol \o "'">>
              ELSE <<>>)
             \o DeterminismErrors(d, k + 1,
                    [x \in (DOMAIN transitionMap) \cup {key} |->
                        IF x = key THEN transition.toStateId ELSE transitionMap[x]])

\* Mutant: a state counts as served on a symbol once it has a transition on
\* any symbol (the test of the symbol is missing).
HasTransition_AnySymbol(d, stateId, symbol) ==
    \E k \in 1..Len(d.transitions) : d.transitions[k].fromStateId = stateId

\* dfa.transitions.some(t => t.fromStateId === state.id && t.symbol === symbol)
HasTransition(d, stateId, symbol) ==
    \E k \in 1..Len(d.transitions) :
        /\ d.transitions[k].fromStateId = stateId
        /\ d.transitions[k].symbol = symbol

\* Mutant: only the first state of the list is checked for completeness.
RECURSIVE CompletenessWarnings_FirstStateOnly(_, _, _)
CompletenessWarnings_FirstStateOnly(d, k, j) ==
    IF k > Len(d.states) \/ k > 1 THEN <<>>
    ELSE IF j > Len(d.alphabet) THEN CompletenessWarnings_FirstStateOnly(d, k + 1, 1)
    ELSE (IF ~HasTransition(d, d.states[k].id, d.alphabet[j])
          THEN <<"Incomplete: state '" \o d.states[k].id
                 \o "' has no transition for symbol '" \o d.alphabet[j] \o "'">>
          ELSE <<>>)
         \o CompletenessWarnings_FirstStateOnly(d, k, j + 1)

RECURSIVE CompletenessWarnings(_, _, _)
CompletenessWarnings(d, k, j) ==
    IF k > Len(d.states) THEN <<>>
    ELSE IF j > Len(d.alphabet) THEN CompletenessWarnings(d, k + 1, 1)
    ELSE (IF ~HasTransition(d, d.states[k].id, d.alphabet[j])
          THEN <<"Incomplete: state '" \o d.states[k].id
                 \o "' has no transition for symbol '" \o d.alphabet[j] \o "'">>
          ELSE <<>>)
         \o CompletenessWarnings(d, k, j + 1)

\* Mutant: the validator returns on the first check that fails.
ValidationErrors_FirstFailureOnly(d) ==
    IF NoStateErrors(d) # <<>> THEN NoStateErrors(d)
    ELSE IF InitialStateErrors(d) # <<>> THEN InitialStateErrors(d)
    ELSE IF AcceptingStateErrors(d, 1) # <<>> THEN AcceptingStateErrors(d, 1)
    ELSE IF DuplicateStateErrors(d, 1, {}) # <<>> THEN DuplicateStateErrors(d, 1, {})
    ELSE IF TransitionReferenceErrors(d, 1) # <<>> THEN TransitionReferenceErrors(d, 1)
    ELSE DeterminismErrors(d, 1, <<>>)

ValidationErrors(d) ==
    NoStateErrors(d)
    \o InitialStateErrors(d)
    \o AcceptingStateErrors(d, 1)
    \o DuplicateStateErrors(d, 1, {})
    \o TransitionReferenceErrors(d, 1)
    \o DeterminismErrors(d, 1, <<>>)

ValidationWarnings(d) ==
    AlphabetWarnings(d) \o CompletenessWarnings(d, 1, 1)

ValidateDFA(d) ==
    LET errors == ValidationErrors(d)
    IN  [isValid |-> Len(errors) = 0,
         errors |-> errors,
         warnings |-> ValidationWarnings(d)]

-----------------------------------------------------------------------------
(* The helpers that create automata and ids *)

\* `q${index}`
StateIdOf(index) == "q" \o ToString(index)

\* Mutant: the search for a free id starts at 0, not at the number of states.
GenerateStateIdEnter_FromZero(existingStates) ==
    [op |-> "generateStateId",
     pc |-> "while",
     existingStates |-> existingStates,
     index |-> 0,
     id |-> StateIdOf(0)]

\* generateStateId up to its loop: let index = existingStates.length, id = `q${index}`
GenerateStateIdEnter(existingStates) ==
    [op |-> "generateStateId",
     pc |-> "while",
     existingStates |-> existingStates,
     index |-> Len(existingStates),
     id |-> StateIdOf(Len(existingStates))]

\* Mutant: the id made from the number of states is returned without the
\* search for a free one.
GenerateStateIdWhile_NoSearch(f) == [f EXCEPT !.pc = "return"]

\* One test of the while condition of generateStateId, with the loop body or
\* the return that follows it
GenerateStateIdWhile(f) ==
    IF \E k \in 1..Len(f.existingStates) : f.existingStates[k].id = f.id
    THEN [f EXCEPT !.index = f.index + 1, !.id = StateIdOf(f.index + 1)]
    ELSE [f EXCEPT !.pc = "return"]

\* generateStateId as one call: the loop run to its return
RECURSIVE GenerateStateIdRun(_)
GenerateStateIdRun(f) ==
    IF f.pc = "return" THEN f.id ELSE GenerateStateIdRun(GenerateStateIdWhile(f))

GenerateStateId(existingStates) ==
    GenerateStateIdRun(GenerateStateIdEnter(existingStates))

\* createEmptyDFA: one state q0, initial and not accepting, and nothing else
\* (name, description, dates, label and coordinates carry no behaviour here)
CreateEmptyDFA ==
    [alphabet |-> <<>>,
     states |-> <<[id |-> "q0"]>>,
     transitions |-> <<>>,
     initialStateId |-> "q0",
     acceptingStateIds |-> <<>>]


-----------------------------------------------------------------------------
(* The automata and inputs the calls are made with *)

\* The state records (only the id is read by the engine)
States == {[id |-> q] : q \in StateIds}

\* Transition ids are list positions, as in the examples and the editor.
TransitionId(k) == "t" \o ToString(k)

\* The place of a (source, symbol) pair in a fixed order of the pairs
StateOrder == <<"q0", "q1">>
SymbolOrder == <<"a", "HL">>
PairRank(t) ==
    (CHOOSE k \in 1..Len(StateOrder) : StateOrder[k] = t[1]) * Len(SymbolOrder)
    + (CHOOSE k \in 1..Len(SymbolOrder) : SymbolOrder[k] = t[2])

\* The transition lists: any transitions, repeated (source, symbol) pairs and
\* unknown ends included.  Neither find() nor the validator's map depends on
\* the order of transitions with different (source, symbol) pairs, so lists
\* are taken in the order of their pairs; transitions that share a pair come
\* in every order.
TransitionLists ==
    {[k \in 1..Len(ts) |->
        [id |-> TransitionId(k),
         fromStateId |-> ts[k][1],
         symbol |-> ts[k][2],
         toStateId |-> ts[k][3]]] :
     ts \in {us \in SeqsUpTo(StateIds \X Symbols \X StateIds, MaxTransitions) :
                \A k \in 1..(Len(us) - 1) : PairRank(us[k]) <= PairRank(us[k + 1])}}

Inputs == SeqsUpTo(CodeUnits, MaxInputLen)

\* The automata validateDFA is called with: any lists of states and alphabet
\* symbols (repetitions included), any initial state id and accepting ids,
\* known or not.
AcceptingLists == {<<>>, <<"q0">>, <<"q1">>, <<"q0", "q1">>, <<"q1", "q1">>}

AllDFAs ==
    [alphabet : SeqsUpTo(Symbols, MaxAlphabet),
     states : SeqsUpTo(States, MaxStates),
     transitions : TransitionLists,
     initialStateId : StateIds,
     acceptingStateIds : AcceptingLists]

\* The automata the executor is constructed with.  It never reads dfa.states
\* and reads the alphabet as a set: one or both states are listed, and the
\* alphabet has no repetition.
ListedStates == {<<[id |-> "q0"]>>, <<[id |-> "q0"], [id |-> "q1"]>>}

ExecutorDFAs ==
    [alphabet : {<<>>, <<"a">>, <<"a", "HL">>},
     states : ListedStates,
     transitions : TransitionLists,
     initialStateId : StateIds,
     acceptingStateIds : {<<>>, <<"q1">>, <<"q0", "q1">>}]

-----------------------------------------------------------------------------
(* The calls *)

Init ==
    /\ dfa \in ExecutorDFAs
    /\ input \in Inputs
    /\ result = <<>>
    /\ steps = <<>>
    /\ report = <<>>
    /\ returned = {}
    /\ lookup = <<>>
    /\ invalidList = <<>>
    /\ validString = <<>>
    /\ frame = <<>>
    /\ editor = <<>>
    /\ sim = <<>>

\* const result = engine.processString(input)
ProcessStringCall ==
    /\ result' = ProcessString(dfa, input)
    /\ returned' = returned \cup {"processString"}
    /\ UNCHANGED <<dfa, input, steps, report, answers, components>>

\* const steps = engine.getSimulationSteps(input)
GetSimulationStepsCall ==
    /\ steps' = GetSimulationSteps(dfa, input)
    /\ returned' = returned \cup {"getSimulationSteps"}
    /\ UNCHANGED <<dfa, input, result, report, answers, components>>

Next == ProcessStringCall \/ GetSimulationStepsCall

Spec == Init /\ [][Next]_vars

InitValidate ==
    /\ dfa \in AllDFAs
    /\ input = <<>>
    /\ result = <<>>
    /\ steps = <<>>
    /\ report = <<>>
    /\ returned = {}
    /\ lookup = <<>>
    /\ invalidList = <<>>
    /\ validString = <<>>
    /\ frame = <<>>
    /\ editor = <<>>
    /\ sim = <<>>

\* const report = DFAEngine.validateDFA(dfa)
ValidateDFACall ==
    /\ report' = ValidateDFA(dfa)
    /\ returned' = returned \cup {"validateDFA"}
    /\ UNCHANGED <<dfa, input, result, steps, answers, components>>

NextValidate == ValidateDFACall

SpecValidate == InitValidate /\ [][NextValidate]_vars

\* The strings getNextState is asked about: single code units and the astral
\* character
LookupSymbols == CodeUnits \cup Symbols

\* const next = engine.getNextState(currentStateId, symbol)
GetNextStateCall ==
    \E currentStateId \in StateIds, symbol \in LookupSymbols :
        /\ lookup' = [currentStateId |-> currentStateId,
                      symbol |-> symbol,
                      value |-> GetNextState(dfa, currentStateId, symbol)]
        /\ returned' = returned \cup {"getNextState"}
        /\ UNCHANGED <<dfa, input, result, steps, report, invalidList, validString, components>>

\* const invalidList = engine.getInvalidSymbols(input)
GetInvalidSymbolsCall ==
    /\ invalidList' = GetInvalidSymbols(dfa, input)
    /\ returned' = returned \cup {"getInvalidSymbols"}
    /\ UNCHANGED <<dfa, input, result, steps, report, lookup, validString, components>>

\* const validString = engine.isValidString(input)
IsValidStringCall ==
    /\ validString' = IsValidString(dfa, input)
    /\ returned' = returned \cup {"isValidString"}
    /\ UNCHANGED <<dfa, input, result, steps, report, lookup, invalidList, components>>

\* An engine that is only asked for next states
InitLookup ==
    /\ dfa \in ExecutorDFAs
    /\ input = <<>>
    /\ result = <<>>
    /\ steps = <<>>
    /\ report = <<>>
    /\ returned = {}
    /\ lookup = <<>>
    /\ invalidList = <<>>
    /\ validString = <<>>
    /\ frame = <<>>
    /\ editor = <<>>
    /\ sim = <<>>

NextLookup == GetNextStateCall

SpecLookup == InitLookup /\ [][NextLookup]_vars

\* An engine that is only asked about the symbols of an input
NextSymbols == GetInvalidSymbolsCall \/ IsValidStringCall

SpecSymbols == Init /\ [][NextSymbols]_vars

\* The calls on one engine and one input, and of the validator on the engine's
\* automaton, in any order and any number of times.  (getNextState is part of
\* processString and getSimulationSteps here; its own calls are SpecLookup's.)
NextCalls ==
    \/ ProcessStringCall
    \/ GetSimulationStepsCall
    \/ GetInvalidSymbolsCall
    \/ IsValidStringCall
    \/ ValidateDFACall

SpecCalls == Init /\ [][NextCalls]_vars

\* The automata of the step-by-step calls: those of the executor, and the
\* same with no state listed
RunDFAs == ExecutorDFAs \cup {[d EXCEPT !.states = <<>>] : d \in ExecutorDFAs}

\* engine.processString(input) or engine.getSimulationSteps(input) has been
\* entered
InitRun ==
    /\ dfa \in RunDFAs
    /\ input \in Inputs
    /\ result = <<>>
    /\ steps = <<>>
    /\ report = <<>>
    /\ returned = {}
    /\ lookup = <<>>
    /\ invalidList = <<>>
    /\ validString = <<>>
    /\ frame \in {ProcessStringEnter(dfa, input), GetSimulationStepsEnter(dfa, input)}
    /\ editor = <<>>
    /\ sim = <<>>

ProcessStringStep ==
    /\ frame.op = "processString"
    /\ frame.pc = "for"
    /\ frame' = ProcessStringFor(dfa, input, frame)
    /\ UNCHANGED <<dfa, input, result, steps, report, returned, answers, editor, sim>>

GetSimulationStepsStep ==
    /\ frame.op = "getSimulationSteps"
    /\ frame.pc = "for"
    /\ frame' = GetSimulationStepsFor(dfa, input, frame)
    /\ UNCHANGED <<dfa, input, result, steps, report, returned, answers, editor, sim>>

NextRun == ProcessStringStep \/ GetSimulationStepsStep

\* The loops are not left waiting: a call that can take a step takes it.
SpecRun == InitRun /\ [][NextRun]_vars /\ WF_vars(NextRun)

\* The state lists generateStateId is called with: states with generated ids
\* or another id, in any order, repetitions included
IdPool == {StateIdOf(n) : n \in 0..(2 * MaxExisting - 1)} \cup {"start"}

ExistingLists == SeqsUpTo({[id |-> x] : x \in IdPool}, MaxExisting)

\* const id = generateStateId(existingStates), taken one loop test at a time
InitGenerate ==
    /\ dfa = <<>>
    /\ input = <<>>
    /\ result = <<>>
    /\ steps = <<>>
    /\ report = <<>>
    /\ returned = {}
    /\ lookup = <<>>
    /\ invalidList = <<>>
    /\ validString = <<>>
    /\ frame \in {GenerateStateIdEnter(existingStates) : existingStates \in ExistingLists}
    /\ editor = <<>>
    /\ sim = <<>>

GenerateStateIdStep ==
    /\ frame.op = "generateStateId"
    /\ frame.pc = "while"
    /\ frame' = GenerateStateIdWhile(frame)
    /\ UNCHANGED <<dfa, input, result, steps, report, returned, answers, editor, sim>>

NextGenerate == GenerateStateIdStep

\* The loop is not left waiting: a call that can take a step takes it.
SpecGenerate == InitGenerate /\ [][NextGenerate]_vars /\ WF_vars(NextGenerate)

-----------------------------------------------------------------------------
(* The editor: DFAEditor and its handlers *)

Modes == {"select", "addState", "addTransition"}

\* What prompt('Enter transition symbol:') returns: null on Cancel, or the
\* text typed
PromptAnswers == {Null, Some(""), Some("a"), Some("b"), Some("ab")}

\* charCodeAt(0) of the one-character strings typed above
CharCode(c) == IF c = "a" THEN 97 ELSE 98

\* xs without its element of index k
RemoveAt(xs, k) == SubSeq(xs, 1, k - 1) \o SubSeq(xs, k + 1, Len(xs))

\* Array.prototype.sort() on one-character strings: ascending code units
RECURSIVE Sort(_)
Sort(xs) ==
    IF Len(xs) <= 1 THEN xs
    ELSE LET m == CHOOSE k \in 1..Len(xs) :
                      \A j \in 1..Len(xs) : CharCode(xs[k]) <= CharCode(xs[j])
         IN  <<xs[m]>> \o Sort(RemoveAt(xs, m))

\* symbol && symbol.length === 1
SymbolAccepted(answer) == answer # Null /\ Len(answer[1]) = 1

\* The id the editor gives to a new transition: `t${dfa.transitions.length}`
NewTransitionId(d) == "t" \o ToString(Len(d.transitions))

\* dfa.alphabet.includes(symbol) ? dfa.alphabet : [...dfa.alphabet, symbol].sort()
NewAlphabet(d, symbol) ==
    IF Includes(d.alphabet, symbol) THEN d.alphabet
    ELSE Sort(Append(d.alphabet, symbol))

\* The automaton deleteState sets: the state, the transitions at it and its
\* accepting entries are filtered out; a deleted initial state is replaced by
\* the first other state, or by '' when there is none
StateDeleted(d, stateId) ==
    LET others == SelectSeq(d.states, LAMBDA st : st.id # stateId)
    IN  [d EXCEPT
            !.states = others,
            !.transitions = SelectSeq(d.transitions,
                LAMBDA t : t.fromStateId # stateId /\ t.toStateId # stateId),
            !.initialStateId =
                IF d.initialStateId = stateId
                THEN (IF Len(others) > 0 THEN others[1].id ELSE "")
                ELSE d.initialStateId,
            !.acceptingStateIds = SelectSeq(d.acceptingStateIds,
                LAMBDA id : id # stateId)]

\* The state of the component after its first render and the effect that
\* fills positions from the states of initialDFA, here createEmptyDFA()
InitEditor ==
    /\ dfa = CreateEmptyDFA
    /\ editor = [positions |-> {"q0"},
                 selectedStateId |-> Null,
                 creatingTransition |-> Null,
                 mode |-> "select"]
    /\ input = <<>>
    /\ result = <<>>
    /\ steps = <<>>
    /\ report = <<>>
    /\ returned = {}
    /\ lookup = <<>>
    /\ invalidList = <<>>
    /\ validString = <<>>
    /\ frame = <<>>
    /\ sim = <<>>

engine == <<input, result, steps, report, returned, answers, frame, sim>>

\* The three toolbar buttons
SetMode ==
    \E m \in Modes :
        /\ editor' = [editor EXCEPT !.mode = m]
        /\ UNCHANGED <<dfa, engine>>

\* handleCanvasClick: the click is on the disc of a state that has a position,
\* or on none. A click that matches no branch changes nothing.
HandleCanvasClick ==
    \E clickedStateId \in {Null} \cup {Some(id) : id \in editor.positions},
       answer \in PromptAnswers :
        /\ IF editor.mode = "addState" /\ clickedStateId = Null
           THEN LET newStateId == GenerateStateId(dfa.states)
                IN  /\ Len(dfa.states) < MaxEditorStates
                    /\ dfa' = [dfa EXCEPT !.states = Append(@, [id |-> newStateId])]
                    /\ editor' = [editor EXCEPT
                                     !.positions = @ \cup {newStateId},
                                     !.mode = "select"]
           ELSE IF editor.mode = "addTransition" /\ clickedStateId # Null
           THEN IF editor.creatingTransition = Null
                THEN /\ editor' = [editor EXCEPT !.creatingTransition = clickedStateId]
                     /\ UNCHANGED dfa
                ELSE /\ IF SymbolAccepted(answer)
                        THEN /\ Len(dfa.transitions) < MaxEditorTransitions
                             /\ dfa' = [dfa EXCEPT
                                    !.alphabet = NewAlphabet(dfa, answer[1]),
                                    !.transitions = Append(@,
                                        [id |-> NewTransitionId(dfa),
                                         fromStateId |-> editor.creatingTransition[1],
                                         toStateId |-> clickedStateId[1],
                                         symbol |-> answer[1]])]
                        ELSE UNCHANGED dfa
                     /\ editor' = [editor EXCEPT
                                      !.creatingTransition = Null,
                                      !.mode = "select"]
           ELSE IF editor.mode = "select"
           THEN /\ editor' = [editor EXCEPT !.selectedStateId = clickedStateId]
                /\ UNCHANGED dfa
           ELSE UNCHANGED <<dfa, editor>>
        /\ UNCHANGED engine

\* handleMouseDown on the disc of a drawn state (dragging moves the disc only)
HandleMouseDown ==
    \E k \in 1..Len(dfa.states) :
        /\ dfa.states[k].id \in editor.positions
        /\ editor.mode = "select"
        /\ editor' = [editor EXCEPT !.selectedStateId = Some(dfa.states[k].id)]
        /\ UNCHANGED <<dfa, engine>>

\* The Delete State button of the panel of the selected state, confirmed
DeleteState ==
    /\ editor.selectedStateId # Null
    /\ LET stateId == editor.selectedStateId[1]
       IN  /\ dfa' = StateDeleted(dfa, stateId)
           /\ editor' = [editor EXCEPT
                            !.positions = @ \ {stateId},
                            !.selectedStateId = Null]
    /\ UNCHANGED engine

\* The delete handle of a drawn transition (one whose two ends have a
\* position), confirmed
DeleteTransition ==
    \E k \in 1..Len(dfa.transitions) :
        LET transitionId == dfa.transitions[k].id
        IN  /\ dfa.transitions[k].fromStateId \in editor.positions
            /\ dfa.transitions[k].toStateId \in editor.positions
            /\ dfa' = [dfa EXCEPT !.transitions =
                          SelectSeq(@, LAMBDA t : t.id # transitionId)]
            /\ UNCHANGED <<editor, engine>>

\* The Initial State button of the panel of the selected state
ToggleInitialState ==
    /\ editor.selectedStateId # Null
    /\ dfa' = [dfa EXCEPT !.initialStateId = editor.selectedStateId[1]]
    /\ UNCHANGED <<editor, engine>>

\* The Accepting State button of the panel of the selected state
ToggleAcceptingState ==
    /\ editor.selectedStateId # Null
    /\ LET stateId == editor.selectedStateId[1]
       IN  dfa' = [dfa EXCEPT !.acceptingStateIds =
                      IF Includes(@, stateId)
                      THEN SelectSeq(@, LAMBDA id : id # stateId)
                      ELSE Append(@, stateId)]
    /\ UNCHANGED <<editor, engine>>

NextEditor ==
    \/ SetMode
    \/ HandleCanvasClick
    \/ HandleMouseDown
    \/ DeleteState
    \/ DeleteTransition
    \/ ToggleInitialState
    \/ ToggleAcceptingState

SpecEditor == InitEditor /\ [][NextEditor]_vars

-----------------------------------------------------------------------------
(* The step simulator: DFASimulator, its effects and its buttons *)

\* The automata the simulator is shown with: one alphabet, initial state and
\* accepting list, every list of transitions
SimulatorDFAs ==
    {d \in ExecutorDFAs :
        /\ d.alphabet = <<"a", "HL">>
        /\ Len(d.states) = 2
        /\ d.initialStateId = "q0"
        /\ d.acceptingStateIds = <<"q1">>}

\* The steps the step-generation effect sets for inputString
GeneratedSteps(d, s) == IF Len(s) = 0 THEN <<>> ELSE GetSimulationSteps(d, s)

\* Mutant: auto-play stops only once the index has reached steps.length.
AutoPlayOver_AtLength(isPlaying, currentStepIndex, length) ==
    ~isPlaying \/ currentStepIndex >= length

\* !isPlaying || currentStepIndex >= steps.length - 1
AutoPlayOver(isPlaying, currentStepIndex, length) ==
    ~isPlaying \/ currentStepIndex >= length - 1

\* The component after its first render and effects: the steps of
\* inputString at index 0, not playing, no timer. clicks is the number of
\* user actions still to come; effect says that the values the auto-play
\* effect depends on have changed since it last ran.
InitSimulator ==
    /\ dfa \in SimulatorDFAs
    /\ input \in Inputs
    /\ steps = GeneratedSteps(dfa, input)
    /\ sim = [currentStepIndex |-> 0,
              isPlaying |-> FALSE,
              timer |-> FALSE,
              effect |-> FALSE,
              clicks |-> MaxClicks]
    /\ result = <<>>
    /\ report = <<>>
    /\ returned = {}
    /\ lookup = <<>>
    /\ invalidList = <<>>
    /\ validString = <<>>
    /\ frame = <<>>
    /\ editor = <<>>

others == <<result, report, returned, answers, frame, editor>>

\* The buttons are drawn once there is an input and a step, and React runs
\* the effects of a render before it handles the next event.
ControlsReady == Len(input) > 0 /\ Len(steps) > 0 /\ ~sim.effect /\ sim.clicks > 0

IsComplete == sim.currentStepIndex = Len(steps) - 1

\* The parent passes another inputString: the step-generation effect
InputStringChange ==
    \E s \in Inputs \ {input} :
        /\ ~sim.effect
        /\ sim.clicks > 0
        /\ input' = s
        /\ steps' = GeneratedSteps(dfa, s)
        /\ sim' = [sim EXCEPT !.currentStepIndex = 0,
                              !.isPlaying = FALSE,
                              !.effect = TRUE,
                              !.clicks = @ - 1]
        /\ UNCHANGED <<dfa, others>>

\* The auto-play effect, after the cleanup of its last run (clearTimeout):
\* it stops the play, or arms a timer of 800 ms. setIsPlaying(false) on a
\* play that was on renders again and so runs the effect again.
AutoPlayEffect ==
    /\ sim.effect
    /\ IF AutoPlayOver(sim.isPlaying, sim.currentStepIndex, Len(steps))
       THEN sim' = [sim EXCEPT !.isPlaying = FALSE,
                               !.timer = FALSE,
                               !.effect = sim.isPlaying]
       ELSE sim' = [sim EXCEPT !.timer = TRUE, !.effect = FALSE]
    /\ UNCHANGED <<dfa, input, steps, others>>

\* The timer of the auto-play effect fires: setCurrentStepIndex(prev => prev + 1)
TimerTick ==
    /\ sim.timer
    /\ ~sim.effect
    /\ sim' = [sim EXCEPT !.currentStepIndex = @ + 1,
                          !.timer = FALSE,
                          !.effect = TRUE]
    /\ UNCHANGED <<dfa, input, steps, others>>

\* Previous, disabled at index 0
HandlePrevious ==
    /\ ControlsReady
    /\ sim.currentStepIndex # 0
    /\ sim' = [sim EXCEPT
                  !.currentStepIndex = IF @ - 1 > 0 THEN @ - 1 ELSE 0,
                  !.isPlaying = FALSE,
                  !.effect = TRUE,
                  !.clicks = @ - 1]
    /\ UNCHANGED <<dfa, input, steps, others>>

\* Next, disabled from the last step on
HandleNext ==
    /\ ControlsReady
    /\ sim.currentStepIndex < Len(steps) - 1
    /\ sim' = [sim EXCEPT
                  !.currentStepIndex = MinOf(Len(steps) - 1, @ + 1),
                  !.effect = TRUE,
                  !.clicks = @ - 1]
    /\ UNCHANGED <<dfa, input, steps, others>>

\* Reset, disabled at index 0
HandleReset ==
    /\ ControlsReady
    /\ sim.currentStepIndex # 0
    /\ sim' = [sim EXCEPT !.currentStepIndex = 0,
                          !.isPlaying = FALSE,
                          !.effect = TRUE,
                          !.clicks = @ - 1]
    /\ UNCHANGED <<dfa, input, steps, others>>

\* Play, shown while not playing and disabled on the last step
HandlePlay ==
    /\ ControlsReady
    /\ ~sim.isPlaying
    /\ ~IsComplete
    /\ sim' = [sim EXCEPT
                  !.currentStepIndex = IF @ >= Len(steps) - 1 THEN 0 ELSE @,
                  !.isPlaying = TRUE,
                  !.effect = TRUE,
                  !.clicks = @ - 1]
    /\ UNCHANGED <<dfa, input, steps, others>>

\* Pause, shown while playing: setIsPlaying(false)
HandlePause ==
    /\ ControlsReady
    /\ sim.isPlaying
    /\ sim' = [sim EXCEPT !.isPlaying = FALSE,
                          !.effect = TRUE,
                          !.clicks = @ - 1]
    /\ UNCHANGED <<dfa, input, steps, others>>

NextSimulator ==
    \/ InputStringChange
    \/ AutoPlayEffect
    \/ TimerTick
    \/ HandlePrevious
    \/ HandleNext
    \/ HandleReset
    \/ HandlePlay
    \/ HandlePause

\* An effect that is due runs and an armed timer fires; the user may stop
\* clicking at any time.
SpecSimulator ==
    /\ InitSimulator
    /\ [][NextSimulator]_vars
    /\ WF_vars(AutoPlayEffect)
    /\ WF_vars(TimerTick)

-----------------------------------------------------------------------------
(* Reference notions the claims are stated with *)

AlphabetOf(d) == {d.alphabet[k] : k \in 1..Len(d.alphabet)}

\* The symbols of s, in the sense of the string iterator
SymbolsOf(s) == {CodePoints(s)[k] : k \in 1..Len(CodePoints(s))}

\* No symbol of s is outside the alphabet
OnlyAlphabetSymbols(d, s) == SymbolsOf(s) \subseteq AlphabetOf(d)

\* p is the walk of the first k code units of s from the initial state:
\* every one of the k lookups is defined
WalkPrefix(d, s, k, p) ==
    /\ p[1] = d.initialStateId
    /\ \A j \in 1..k : GetNextState(d, p[j], s[j]) = Some(p[j + 1])

Walks(d, s, k) == {p \in [1..(k + 1) -> StateIds] : WalkPrefix(d, s, k, p)}

\* The walk consumes every code unit of s and ends in an accepting state
AcceptingWalk(d, s) ==
    \E p \in Walks(d, s, Len(s)) : Includes(d.acceptingStateIds, p[Len(s) + 1])

\* The walk takes i transitions and the lookup for the code unit at index i
\* (0-based) is absent
StuckAt(d, s, i) ==
    /\ i < Len(s)
    /\ \E p \in Walks(d, s, i) : GetNextState(d, p[i + 1], s[i + 1]) = Null

\* The number of transitions taken before the first undefined one
TransitionsTaken(d, s) ==
    CHOOSE k \in 0..Len(s) :
        /\ Walks(d, s, k) # {}
        /\ k < Len(s) => Walks(d, s, k + 1) = {}


Called(op) == op \in returned

\* The three ways processString returns, read off the result
IsNoTransitionFailure(r) ==
    \E q \in StateIds, c \in CodeUnits :
        r.error = Some("No transition found from state '" \o q
                       \o "' with symbol '" \o c \o "'")

IsFullConsumption(r) ==
    \/ r.accepted
    \/ \E q \in StateIds :
         r.error = Some("String rejected: ended in non-accepting state '" \o q \o "'")

\* The violations validateDFA reports as errors
HasNoState(d) == Len(d.states) = 0
InitialUnknown(d) == \A k \in 1..Len(d.states) : d.states[k].id # d.initialStateId
AcceptingUnknown(d) ==
    \E a \in 1..Len(d.acceptingStateIds) :
        \A k \in 1..Len(d.states) : d.states[k].id # d.acceptingStateIds[a]
DuplicateStateId(d) ==
    \E j, k \in 1..Len(d.states) : j # k /\ d.states[j].id = d.states[k].id
TransitionEndUnknown(d) ==
    \E t \in 1..Len(d.transitions) :
        \/ \A k \in 1..Len(d.states) : d.states[k].id # d.transitions[t].fromStateId
        \/ \A k \in 1..Len(d.states) : d.states[k].id # d.transitions[t].toStateId
TransitionSymbolUnknown(d) ==
    \E t \in 1..Len(d.transitions) : d.transitions[t].symbol \notin AlphabetOf(d)
SharedSourceAndSymbol(d) ==
    \E t, u \in 1..Len(d.transitions) :
        /\ t # u
        /\ d.transitions[t].fromStateId = d.transitions[u].fromStateId
        /\ d.transitions[t].symbol = d.transitions[u].symbol

HasViolation(d) ==
    \/ HasNoState(d)
    \/ InitialUnknown(d)
    \/ AcceptingUnknown(d)
    \/ DuplicateStateId(d)
    \/ TransitionEndUnknown(d)
    \/ TransitionSymbolUnknown(d)
    \/ SharedSourceAndSymbol(d)

-----------------------------------------------------------------------------
(* Claims about processString *)

\* C1 as stated: processString accepts exactly when the walk from the initial
\* state consumes every character through defined transitions and ends in an
\* accepting state.
C1_AcceptedIffAcceptingWalk ==
    Called("processString") =>
        (result.accepted <=> AcceptingWalk(dfa, input))

\* C1 (amended): processString accepts exactly when no symbol of the input is
\* outside the alphabet and the walk from the initial state consumes every
\* character through defined transitions and ends in an accepting state.
C1_AcceptedIffValidAndAcceptingWalk ==
    Called("processString") =>
        (result.accepted <=>
            (OnlyAlphabetSymbols(dfa, input) /\ AcceptingWalk(dfa, input)))

\* An input of two or more characters has been accepted.
C1_Witness ==
    /\ Called("processString")
    /\ result.accepted
    /\ Len(input) >= 2

\* Every alphabet symbol is one UTF-16 code unit.
SingleUnitAlphabet(d) == \A k \in 1..Len(d.alphabet) : Len(d.alphabet[k]) = 1

\* validateDFA reports no 'Incomplete' warning.
NoIncompleteWarning(d) ==
    LET warnings == ValidateDFA(d).warnings
    IN  \A k \in 1..Len(warnings) :
            warnings[k] = "Alphabet is empty - DFA can only accept empty string"

\* C2 as stated: on an automaton validateDFA finds valid, processString never
\* fails on a missing transition (no call that fails on one is made on a valid
\* automaton).
C2_ValidNeverMissesTransition ==
    (Called("processString") /\ IsNoTransitionFailure(result)) =>
        ~ValidateDFA(dfa).isValid

\* C2 (amended): on an automaton that validateDFA finds valid and reports no
\* 'Incomplete' warning for, and whose alphabet symbols are single UTF-16 code
\* units, processString never fails on a missing transition (no call that
\* fails on one is made on such an automaton).
C2_ValidCompleteNeverMissesTransition ==
    (Called("processString") /\ IsNoTransitionFailure(result)) =>
        ~(/\ SingleUnitAlphabet(dfa)
          /\ ValidateDFA(dfa).isValid
          /\ NoIncompleteWarning(dfa))

\* A valid, complete automaton with a one-unit alphabet has walked an input
\* of two or more characters through two states.
C2_Witness ==
    /\ Called("processString")
    /\ ValidateDFA(dfa).isValid
    /\ NoIncompleteWarning(dfa)
    /\ SingleUnitAlphabet(dfa)
    /\ Len(dfa.alphabet) > 0
    /\ Len(input) >= 2
    /\ Len(result.path) = Len(input) + 1
    /\ result.path[1] # result.path[2]

\* The amended C2 without its condition on the alphabet: refuted by an
\* alphabet that holds an astral character, which the pre-check reads as one
\* symbol and the walk as two code units.
C2_WithoutSingleUnitAlphabet ==
    (Called("processString") /\ IsNoTransitionFailure(result)) =>
        ~(ValidateDFA(dfa).isValid /\ NoIncompleteWarning(dfa))

\* The symbols of s with the 0-based code-unit index each starts at
RECURSIVE SymbolStarts(_, _)
SymbolStarts(s, i) ==
    IF i >= Len(s) THEN {}
    ELSE IF i + 2 <= Len(s) /\ IsHighSurrogate(s[i + 1]) /\ IsLowSurrogate(s[i + 2])
         THEN {<<i, s[i + 1] \o s[i + 2]>>} \cup SymbolStarts(s, i + 2)
         ELSE {<<i, s[i + 1]>>} \cup SymbolStarts(s, i + 1)

\* The symbols of s that are not in the alphabet
OffendingSymbols(d, s) == SymbolsOf(s) \ AlphabetOf(d)

FirstAppearance(s, symbol) == Min({st[1] : st \in {x \in SymbolStarts(s, 0) : x[2] = symbol}})

\* The offending symbols, each once, in order of first appearance
OffendingInOrder(d, s) ==
    LET off == OffendingSymbols(d, s)
    IN  CHOOSE e \in [1..Cardinality(off) -> off] :
            \A j, k \in 1..Cardinality(off) :
                j < k => FirstAppearance(s, e[j]) < FirstAppearance(s, e[k])

\* The index of the symbol processString fails on: the first offending symbol,
\* or else the code unit without a transition
FailingIndex(d, s, r) ==
    IF OffendingSymbols(d, s) # {}
    THEN Min({FirstAppearance(s, c) : c \in OffendingSymbols(d, s)})
    ELSE Len(s) - Len(r.remainingInput)

\* C4: when processString consumes the whole input (accepted, or rejected in
\* a non-accepting state), the path has input.length + 1 elements, starts with
\* the initial state, and each later element is getNextState of the one before
\* it and the matching input symbol.
C4_FullPath ==
    (Called("processString") /\ IsFullConsumption(result)) =>
        /\ Len(result.path) = Len(input) + 1
        /\ result.path[1] = dfa.initialStateId
        /\ \A k \in 2..Len(result.path) :
               GetNextState(dfa, result.path[k - 1], input[k - 1]) = Some(result.path[k])

\* An input of two or more characters has been consumed whole and rejected.
C4_Witness ==
    /\ Called("processString")
    /\ IsFullConsumption(result)
    /\ ~result.accepted
    /\ Len(input) >= 2

\* C5 as stated: on every early failure (not accepted, remainingInput not
\* empty) the path has as many elements as the index of the failing symbol
\* plus one.
C5_EarlyFailurePathLength ==
    (Called("processString") /\ ~result.accepted /\ result.remainingInput # <<>>) =>
        Len(result.path) = FailingIndex(dfa, input, result) + 1

\* C5 (amended): on every early failure (not accepted, remainingInput not
\* empty) with no input symbol outside the alphabet, the walk is stuck at some
\* index i and the path has i + 1 elements; with an input symbol outside the
\* alphabet the path is empty.
C5_MissingTransitionPathLength ==
    (Called("processString") /\ ~result.accepted /\ result.remainingInput # <<>>) =>
        IF OnlyAlphabetSymbols(dfa, input)
        THEN \E i \in 0..(Len(input) - 1) :
                 StuckAt(dfa, input, i) /\ Len(result.path) = i + 1
        ELSE Len(result.path) = 0

\* processString has failed on a missing transition after taking at least one.
C5_Witness ==
    /\ Called("processString")
    /\ ~result.accepted
    /\ result.remainingInput # <<>>
    /\ OnlyAlphabetSymbols(dfa, input)
    /\ Len(result.path) >= 2

\* C8: with an input symbol outside the alphabet processString takes no
\* transition: not accepted, empty path, currentState the initial state, the
\* whole input remaining, and an error that lists the offending symbols each
\* once in order of first appearance.
C8_InvalidSymbols ==
    (Called("processString") /\ ~OnlyAlphabetSymbols(dfa, input)) =>
        /\ result.accepted = FALSE
        /\ result.path = <<>>
        /\ result.currentState = dfa.initialStateId
        /\ result.remainingInput = input
        /\ result.error = Some("Invalid symbols in input: "
                               \o Join(OffendingInOrder(dfa, input), ", "))

\* processString has returned for an input of two different symbols, both
\* outside the alphabet.
C8_Witness ==
    /\ Called("processString")
    /\ Cardinality(OffendingSymbols(dfa, input)) = 2
    /\ Len(CodePoints(input)) = 2

\* C9: with no input symbol outside the alphabet and the lookup absent at
\* index i from state q, processString returns not accepted, the path of the
\* i + 1 states visited (ending in q), currentState q, the suffix of the input
\* from index i as remainingInput, and an error naming q and the symbol.
C9_MissingTransition ==
    Called("processString") =>
        \A i \in 0..(Len(input) - 1) :
            \A p \in Walks(dfa, input, i) :
                (/\ OnlyAlphabetSymbols(dfa, input)
                 /\ GetNextState(dfa, p[i + 1], input[i + 1]) = Null) =>
                    /\ result.accepted = FALSE
                    /\ result.path = p
                    /\ result.currentState = p[i + 1]
                    /\ result.remainingInput = SubSeq(input, i + 1, Len(input))
                    /\ result.error =
                           Some("No transition found from state '" \o p[i + 1]
                                \o "' with symbol '" \o input[i + 1] \o "'")

\* processString has returned for a walk that is stuck at index 1 or later.
C9_Witness ==
    /\ Called("processString")
    /\ OnlyAlphabetSymbols(dfa, input)
    /\ \E i \in 1..(Len(input) - 1) : StuckAt(dfa, input, i)

\* C10: the error of a processString result is present exactly when the
\* result is not accepted.
C10_ErrorIffNotAccepted ==
    Called("processString") => (result.error # Null <=> ~result.accepted)

\* An input of one character has been accepted, with no error.
C10_Witness ==
    /\ Called("processString")
    /\ result.accepted
    /\ result.error = Null
    /\ Len(input) = 1

\* The walk from the initial state consumes every code unit of s.
FullyConsumed(d, s) == OnlyAlphabetSymbols(d, s) /\ Walks(d, s, Len(s)) # {}

\* C11: remainingInput of a processString result is empty exactly when the
\* input was consumed whole (the result is an acceptance or a rejection in the
\* state reached); it is not empty on any invalid-symbol failure nor on any
\* missing-transition failure.
C11_RemainingEmptyIffConsumed ==
    Called("processString") =>
        /\ (result.remainingInput = <<>>) <=> IsFullConsumption(result)
        /\ (result.remainingInput = <<>>) <=> FullyConsumed(dfa, input)
        /\ ~OnlyAlphabetSymbols(dfa, input) => result.remainingInput # <<>>
        /\ IsNoTransitionFailure(result) => result.remainingInput # <<>>

\* processString has failed on the last of two characters for want of a
\* transition, one character remaining.
C11_Witness ==
    /\ Called("processString")
    /\ IsNoTransitionFailure(result)
    /\ Len(input) = 2
    /\ Len(result.remainingInput) = 1

\* C12: for the empty input and any automaton, processString returns the
\* path holding only initialStateId, currentState initialStateId, an empty
\* remainingInput, and accepted exactly when initialStateId is one of
\* acceptingStateIds.
C12_EmptyInput ==
    (Called("processString") /\ input = <<>>) =>
        /\ result.path = <<dfa.initialStateId>>
        /\ result.currentState = dfa.initialStateId
        /\ result.remainingInput = <<>>
        /\ result.accepted <=>
               \E k \in 1..Len(dfa.acceptingStateIds) :
                   dfa.acceptingStateIds[k] = dfa.initialStateId

\* The empty input has been accepted by an automaton whose initial state is
\* accepting but not among the listed states.
C12_Witness ==
    /\ Called("processString")
    /\ input = <<>>
    /\ result.accepted
    /\ \A k \in 1..Len(dfa.states) : dfa.states[k].id # dfa.initialStateId

C25_CompleteConsumesAll ==
    (/\ Called("processString")
     /\ OnlyAlphabetSymbols(dfa, input)
     /\ ValidateDFA(dfa).isValid
     /\ NoIncompleteWarning(dfa)) =>
        /\ Len(result.path) = Len(input) + 1
        /\ result.remainingInput = <<>>
        /\ \A k \in 1..Len(result.path) : StateExists(dfa, result.path[k])

\* C25 (amended): if validateDFA reports no error and no 'Incomplete' warning
\* and every alphabet symbol is a single UTF-16 code unit, then for every
\* input made only of alphabet symbols processString consumes the whole
\* input: the path has input.length + 1 elements, remainingInput is empty,
\* and every state id of the path is the id of a state of the automaton.
C25_CompleteSingleUnitConsumesAll ==
    (/\ Called("processString")
     /\ OnlyAlphabetSymbols(dfa, input)
     /\ SingleUnitAlphabet(dfa)
     /\ ValidateDFA(dfa).isValid
     /\ NoIncompleteWarning(dfa)) =>
        /\ Len(result.path) = Len(input) + 1
        /\ result.remainingInput = <<>>
        /\ \A k \in 1..Len(result.path) : StateExists(dfa, result.path[k])

\* A valid, complete automaton of two states with a one-unit alphabet has
\* consumed an input of two characters and ended where it did not start.
C25_Witness ==
    /\ Called("processString")
    /\ ValidateDFA(dfa).isValid
    /\ NoIncompleteWarning(dfa)
    /\ SingleUnitAlphabet(dfa)
    /\ Len(dfa.states) = 2
    /\ Len(input) = 2
    /\ OnlyAlphabetSymbols(dfa, input)
    /\ result.remainingInput = <<>>
    /\ result.currentState # dfa.initialStateId

\* C26: in every processString result with a path that is not empty,
\* currentState is the last element of the path and remainingInput is the
\* suffix of the input from index path.length - 1 on, so that
\* (path.length - 1) + remainingInput.length = input.length.
C26_CurrentStateAndRemainder ==
    (Called("processString") /\ Len(result.path) > 0) =>
        /\ result.currentState = result.path[Len(result.path)]
        /\ result.remainingInput = SubSeq(input, Len(result.path), Len(input))
        /\ (Len(result.path) - 1) + Len(result.remainingInput) = Len(input)

\* processString has stopped on a missing transition with one character
\* consumed and one remaining, in another state than the initial one.
C26_Witness ==
    /\ Called("processString")
    /\ Len(result.path) = 2
    /\ Len(result.remainingInput) = 1
    /\ result.currentState # dfa.initialStateId

-----------------------------------------------------------------------------
(* Claims about getSimulationSteps *)

\* C6: the trace has one step more than min(input.length, the number of
\* transitions taken before the first undefined one).
C6_StepCount ==
    Called("getSimulationSteps") =>
        Len(steps) - 1 = MinOf(Len(input), TransitionsTaken(dfa, input))

\* A trace has stopped short of the input after taking a transition.
C6_Witness ==
    /\ Called("getSimulationSteps")
    /\ Len(steps) >= 2
    /\ Len(steps) - 1 < Len(input)

\* C7 as stated: for every input the state ids of the trace are a prefix of
\* the path of processString.
C7_StepsPrefixOfPath ==
    (Called("getSimulationSteps") /\ Called("processString")) =>
        \A i \in 1..Len(steps) :
            /\ i <= Len(result.path)
            /\ steps[i].stateId = result.path[i]

\* C7 (amended): for every input with no symbol outside the alphabet the
\* state ids of the trace are a prefix of the path of processString.
C7_StepsPrefixOfPathOnValidInput ==
    (/\ Called("getSimulationSteps")
     /\ Called("processString")
     /\ OnlyAlphabetSymbols(dfa, input)) =>
        \A i \in 1..Len(steps) :
            /\ i <= Len(result.path)
            /\ steps[i].stateId = result.path[i]

\* Both calls have returned for an input without offending symbols, the trace
\* holding three steps or more.
C7_Witness ==
    /\ Called("getSimulationSteps")
    /\ Called("processString")
    /\ OnlyAlphabetSymbols(dfa, input)
    /\ Len(steps) >= 3

\* C14: the trace starts with the step (initialStateId, no symbol, the whole
\* input remaining, stepNumber 0), and the step at every later position k has
\* stepNumber k, the symbol input[k-1], the input after its first k symbols
\* as remainingInput, and as stateId getNextState of the stateId before it and
\* input[k-1].  (steps[k + 1] is the step at position k.)
C14_StepContents ==
    Called("getSimulationSteps") =>
        /\ Len(steps) >= 1
        /\ Len(steps) <= Len(input) + 1
        /\ steps[1] = [stateId |-> dfa.initialStateId,
                       symbol |-> Null,
                       remainingInput |-> input,
                       stepNumber |-> 0]
        /\ \A k \in 1..(Len(steps) - 1) :
               /\ steps[k + 1].stepNumber = k
               /\ steps[k + 1].symbol = Some(input[k])
               /\ steps[k + 1].remainingInput = SubSeq(input, k + 1, Len(input))
               /\ GetNextState(dfa, steps[k].stateId, input[k])
                      = Some(steps[k + 1].stateId)

\* A trace of three steps through two different states has been returned.
C14_Witness ==
    /\ Called("getSimulationSteps")
    /\ Len(steps) = 3
    /\ steps[2].stateId # steps[3].stateId

\* The trace that holds only the initial-state step
InitialStepOnly(d, s) ==
    <<[stateId |-> d.initialStateId,
       symbol |-> Null,
       remainingInput |-> s,
       stepNumber |-> 0]>>

\* The positions (from 1) of the code units of s that are no alphabet symbol
UnitsOutsideAlphabet(d, s) == {i \in 1..Len(s) : s[i] \notin AlphabetOf(d)}

\* A step carries a state, a symbol, the remaining input and a number, and
\* nothing that tells of a failure.
NoErrorSignal(trace) ==
    \A k \in 1..Len(trace) :
        DOMAIN trace[k] = {"stateId", "symbol", "remainingInput", "stepNumber"}

\* C15 as stated: when the input contains a symbol that is not in the
\* alphabet, the trace holds only the initial-state step.
C15_InvalidSymbolOneStepTrace ==
    (Called("getSimulationSteps") /\ ~OnlyAlphabetSymbols(dfa, input)) =>
        steps = InitialStepOnly(dfa, input)

\* C15 (amended): when the input contains a character (UTF-16 code unit) that
\* is not in the alphabet and no transition carries a symbol outside the
\* alphabet, the trace carries no error signal and stops before the first such
\* character: it holds the initial-state step and at most one step for each
\* character before that one, so it is the 1-step trace when that character
\* is the first of the input.
C15_TraceStopsBeforeInvalidSymbol ==
    (/\ Called("getSimulationSteps")
     /\ UnitsOutsideAlphabet(dfa, input) # {}
     /\ ~TransitionSymbolUnknown(dfa)) =>
        /\ NoErrorSignal(steps)
        /\ steps[1] = InitialStepOnly(dfa, input)[1]
        /\ Len(steps) <= Min(UnitsOutsideAlphabet(dfa, input))
        /\ 1 \in UnitsOutsideAlphabet(dfa, input) =>
               steps = InitialStepOnly(dfa, input)

\* A trace has taken the step for a first character of the alphabet and
\* stopped before a second character outside it, on an automaton whose
\* transitions carry alphabet symbols only.
C15_Witness ==
    /\ Called("getSimulationSteps")
    /\ ~TransitionSymbolUnknown(dfa)
    /\ UnitsOutsideAlphabet(dfa, input) = {2}
    /\ Len(steps) = 2

-----------------------------------------------------------------------------
(* Claims about getNextState, getInvalidSymbols and isValidString *)

\* The list positions of the transitions from state q on symbol a
Matching(d, q, a) ==
    {k \in 1..Len(d.transitions) :
        d.transitions[k].fromStateId = q /\ d.transitions[k].symbol = a}

\* C16: getNextState(q, a) returns null exactly when no transition has
\* fromStateId q and symbol a; otherwise it returns the toStateId of the first
\* such transition of the list.
C16_FirstMatchWins ==
    Called("getNextState") =>
        LET matching == Matching(dfa, lookup.currentStateId, lookup.symbol)
        IN  /\ lookup.value = Null <=> matching = {}
            /\ \A k \in matching :
                   (\A j \in matching : k <= j) =>
                       lookup.value = Some(dfa.transitions[k].toStateId)

\* getNextState has answered for a state and symbol with two transitions that
\* lead to different states.
C16_Witness ==
    /\ Called("getNextState")
    /\ \E j, k \in Matching(dfa, lookup.currentStateId, lookup.symbol) :
           /\ j < k
           /\ dfa.transitions[j].toStateId # dfa.transitions[k].toStateId
           /\ lookup.value = Some(dfa.transitions[j].toStateId)

\* C17: getInvalidSymbols(input) returns the characters of the input that are
\* not in the alphabet, each once, in order of first appearance; and
\* isValidString(input) is true exactly when that list is empty, that is when
\* every character of the input is in the alphabet.  (A character is what the
\* string iterator yields: a surrogate pair is one character.)
C17_InvalidSymbolsListed ==
    /\ Called("getInvalidSymbols") =>
           invalidList = OffendingInOrder(dfa, input)
    /\ Called("isValidString") =>
           (validString <=> OnlyAlphabetSymbols(dfa, input))
    /\ (Called("getInvalidSymbols") /\ Called("isValidString")) =>
           (validString <=> invalidList = <<>>)

\* Both have answered for an input that holds one offending character twice.
C17_Witness ==
    /\ Called("getInvalidSymbols")
    /\ Called("isValidString")
    /\ Len(input) = 2
    /\ input[1] = input[2]
    /\ Len(invalidList) = 1
    /\ validString = FALSE

-----------------------------------------------------------------------------
(* Claims about validateDFA *)

\* C3: isValid is true exactly when the error list is empty, which is exactly
\* when the automaton has none of the violations: no state, initialStateId not
\* naming a state, an accepting id not naming a state, two states with one id,
\* a transition end not naming a state, a transition symbol outside the
\* alphabet, two transitions with the same source and symbol.  Warnings do
\* not make isValid false.
C3_ValidIffNoViolation ==
    Called("validateDFA") =>
        /\ report.isValid <=> (Len(report.errors) = 0)
        /\ report.isValid <=> ~HasViolation(dfa)

\* validateDFA has found an automaton valid while warning of an empty
\* alphabet or of a missing transition.
C3_Witness ==
    /\ Called("validateDFA")
    /\ report.isValid
    /\ Len(report.warnings) > 0
    /\ Len(dfa.transitions) = 2

\* The error that names the state q and the symbol a of a determinism violation
NonDeterministicError(q, a) ==
    "Non-deterministic: multiple transitions from state '" \o q
    \o "' with symbol '" \o a \o "'"

\* Two transitions from one state on one symbol that lead to different states
Clash(d, t, u) ==
    /\ t # u
    /\ d.transitions[t].fromStateId = d.transitions[u].fromStateId
    /\ d.transitions[t].symbol = d.transitions[u].symbol
    /\ d.transitions[t].toStateId # d.transitions[u].toStateId

\* C18: for an automaton with two transitions that have the same source state
\* and symbol but different destinations, validateDFA returns isValid false
\* and an error that names that source state and that symbol.
C18_NonDeterminismReported ==
    Called("validateDFA") =>
        \A t, u \in 1..Len(dfa.transitions) :
            Clash(dfa, t, u) =>
                /\ report.isValid = FALSE
                /\ \E e \in 1..Len(report.errors) :
                       report.errors[e] =
                           NonDeterministicError(dfa.transitions[t].fromStateId,
                                                 dfa.transitions[t].symbol)

\* validateDFA has reported on an automaton whose only fault is a pair of
\* transitions from one state on one symbol to different states.
C18_Witness ==
    /\ Called("validateDFA")
    /\ \E t, u \in 1..Len(dfa.transitions) : Clash(dfa, t, u)
    /\ Len(report.errors) = 1

\* The warning about state q lacking a transition on symbol a
IncompleteWarning(q, a) ==
    "Incomplete: state '" \o q \o "' has no transition for symbol '" \o a \o "'"

\* How many times w is listed in ws
Count(ws, w) == Cardinality({k \in 1..Len(ws) : ws[k] = w})

\* The ids of the listed states
ListedIds(d) == {d.states[k].id : k \in 1..Len(d.states)}

\* No transition leaves state q on symbol a
Missing(d, q, a) ==
    \A k \in 1..Len(d.transitions) :
        ~(d.transitions[k].fromStateId = q /\ d.transitions[k].symbol = a)

\* How many entries of the states list have id q, of the alphabet are a
StateEntries(d, q) == Cardinality({k \in 1..Len(d.states) : d.states[k].id = q})
AlphabetEntries(d, a) == Cardinality({k \in 1..Len(d.alphabet) : d.alphabet[k] = a})

\* C19 as stated: validateDFA produces exactly one 'Incomplete' warning for
\* each (state, alphabet symbol) combination that has no transition, and none
\* for a combination that has one; such warnings leave isValid unchanged.
C19_OneWarningPerMissingCombination ==
    Called("validateDFA") =>
        /\ \A q \in ListedIds(dfa), a \in AlphabetOf(dfa) :
               Count(report.warnings, IncompleteWarning(q, a))
                   = IF Missing(dfa, q, a) THEN 1 ELSE 0
        /\ report.isValid <=> (Len(report.errors) = 0)

\* C19 (amended): validateDFA produces one 'Incomplete' warning for each pair
\* of an entry of the states list and an entry of the alphabet list whose
\* state id and symbol have no transition (so exactly one for each
\* combination when no state id and no alphabet symbol is listed twice), and
\* none for a combination that has one; such warnings leave isValid
\* unchanged.
C19_OneWarningPerMissingEntryPair ==
    Called("validateDFA") =>
        /\ \A q \in ListedIds(dfa), a \in AlphabetOf(dfa) :
               Count(report.warnings, IncompleteWarning(q, a))
                   = IF Missing(dfa, q, a)
                     THEN StateEntries(dfa, q) * AlphabetEntries(dfa, a)
                     ELSE 0
        /\ \A k \in 1..Len(report.warnings) :
               \/ report.warnings[k] = "Alphabet is empty - DFA can only accept empty string"
               \/ \E q \in ListedIds(dfa), a \in AlphabetOf(dfa) :
                      report.warnings[k] = IncompleteWarning(q, a)
        /\ report.isValid <=> (Len(report.errors) = 0)

\* validateDFA has found valid an automaton of two states and two symbols,
\* each listed once, with one combination served and three warned of.
C19_Witness ==
    /\ Called("validateDFA")
    /\ Cardinality(ListedIds(dfa)) = 2
    /\ Cardinality(AlphabetOf(dfa)) = 2
    /\ Len(dfa.transitions) = 1
    /\ report.isValid
    /\ Len(report.warnings) = 3

\* C20: the checks of validateDFA run independently of one another: whatever
\* else is wrong with the automaton, the report holds the entry of every
\* violated check (no state, unknown initial state, each unknown accepting id,
\* each repeated state id, each unknown end or symbol of a transition, each
\* repeated source and symbol, the empty alphabet, each missing transition).
C20_NoShortCircuit ==
    Called("validateDFA") =>
        /\ HasNoState(dfa) =>
               Includes(report.errors, "DFA must have at least one state")
        /\ InitialUnknown(dfa) =>
               Includes(report.errors, "Initial state '" \o dfa.initialStateId
                                       \o "' not found in states")
        /\ \A a \in 1..Len(dfa.acceptingStateIds) :
               dfa.acceptingStateIds[a] \notin ListedIds(dfa) =>
                   Includes(report.errors, "Accepting state '" \o dfa.acceptingStateIds[a]
                                           \o "' not found in states")
        /\ \A j, k \in 1..Len(dfa.states) :
               (j # k /\ dfa.states[j].id = dfa.states[k].id) =>
                   Includes(report.errors, "Duplicate state ID: '" \o dfa.states[j].id \o "'")
        /\ \A t \in 1..Len(dfa.transitions) :
               LET transition == dfa.transitions[t]
               IN  /\ transition.fromStateId \notin ListedIds(dfa) =>
                          Includes(report.errors,
                              "Transition '" \o transition.id
                              \o "' references non-existent from state '"
                              \o transition.fromStateId \o "'")
                   /\ transition.toStateId \notin ListedIds(dfa) =>
                          Includes(report.errors,
                              "Transition '" \o transition.id
                              \o "' references non-existent to state '"
                              \o transition.toStateId \o "'")
                   /\ transition.symbol \notin AlphabetOf(dfa) =>
                          Includes(report.errors,
                              "Transition '" \o transition.id \o "' uses symbol '"
                              \o transition.symbol \o "' not in alphabet")
        /\ \A t, u \in 1..Len(dfa.transitions) :
               (/\ t # u
                /\ dfa.transitions[t].fromStateId = dfa.transitions[u].fromStateId
                /\ dfa.transitions[t].symbol = dfa.transitions[u].symbol) =>
                   Includes(report.errors,
                       NonDeterministicError(dfa.transitions[t].fromStateId,
                                             dfa.transitions[t].symbol))
        /\ Len(dfa.alphabet) = 0 =>
               Includes(report.warnings,
                   "Alphabet is empty - DFA can only accept empty string")
        /\ \A q \in ListedIds(dfa), a \in AlphabetOf(dfa) :
               Missing(dfa, q, a) => Includes(report.warnings, IncompleteWarning(q, a))

\* validateDFA has reported on an automaton with no state, an accepting id
\* and two transitions on one symbol from one source: the no-state error, the
\* initial-state error, the accepting-state error, the errors about the ends
\* of the transitions and the determinism error stand together.
C20_Witness ==
    /\ Called("validateDFA")
    /\ HasNoState(dfa)
    /\ Len(dfa.acceptingStateIds) = 1
    /\ SharedSourceAndSymbol(dfa)
    /\ ~TransitionSymbolUnknown(dfa)
    /\ Len(report.errors) = 1 + 1 + 1 + 4 + 1

\* How many transitions leave state q on symbol a
Sharing(d, q, a) == Cardinality(Matching(d, q, a))

-----------------------------------------------------------------------------
(* Claims about the calls taken step by step *)

\* A processString result: the six fields, with a truth value, a list of
\* state ids and an error that is a message or absent
IsProcessingResult(r) ==
    /\ DOMAIN r = {"accepted", "inputString", "path", "currentState",
                   "remainingInput", "error"}
    /\ r.accepted \in BOOLEAN
    /\ r.inputString = input
    /\ r.path \in SeqsUpTo(StateIds, Len(input) + 1)
    /\ r.currentState \in StateIds
    /\ Len(r.remainingInput) <= Len(input)
    /\ Len(r.error) <= 1

\* A trace: one step or more, each of the four fields
IsTrace(t) ==
    /\ Len(t) >= 1
    /\ \A k \in 1..Len(t) :
           /\ DOMAIN t[k] = {"stateId", "symbol", "remainingInput", "stepNumber"}
           /\ t[k].stateId \in StateIds
           /\ t[k].stepNumber = k - 1

\* C22: for any automaton, malformed ones included (initial state not among
\* the states, transitions to unknown states, repeated transitions, no state
\* at all), processString and getSimulationSteps return, after at most
\* input.length lookups of a transition, and what they return is a result
\* (the one of the call taken as a whole), never an error raised.
C22_TerminatesWithResult ==
    /\ <>(frame.pc = "return")
    /\ [](frame.lookups <= Len(input))
    /\ [](frame.pc = "return" =>
            IF frame.op = "processString"
            THEN /\ IsProcessingResult(frame.value)
                 /\ frame.value = ProcessString(dfa, input)
            ELSE /\ IsTrace(frame.value)
                 /\ frame.value = GetSimulationSteps(dfa, input))

\* processString has returned after two lookups on an automaton with no
\* state listed and two transitions from one state on one symbol.
C22_Witness ==
    /\ frame.op = "processString"
    /\ frame.pc = "return"
    /\ frame.lookups = 2
    /\ Len(dfa.states) = 0
    /\ SharedSourceAndSymbol(dfa)

-----------------------------------------------------------------------------
(* Claims about generateStateId *)

\* The ids of the states of a list
IdsOf(states) == {states[k].id : k \in 1..Len(states)}

\* The numbers from the length of the list on whose id no state of the list has
FreeFrom(states) ==
    {n \in Len(states)..(2 * Len(states)) : StateIdOf(n) \notin IdsOf(states)}

\* C21: generateStateId(existingStates) terminates, and what it returns is
\* 'q' followed by the least N >= existingStates.length for which no existing
\* state has the id; it is never the id of an existing state.
C21_GenerateStateId ==
    /\ <>(frame.pc = "return")
    /\ [](frame.pc = "return" =>
            /\ \E n \in FreeFrom(frame.existingStates) :
                   /\ \A m \in FreeFrom(frame.existingStates) : n <= m
                   /\ frame.id = StateIdOf(n)
            /\ frame.id \notin IdsOf(frame.existingStates))

\* generateStateId has returned after passing over two ids that were taken.
C21_Witness ==
    /\ frame.pc = "return"
    /\ frame.index = Len(frame.existingStates) + 2

-----------------------------------------------------------------------------
(* Claims about the editor *)

\* C24: starting from createEmptyDFA(), after any interleaving of adding a
\* state whose id is generateStateId(current states) and deleting states, no
\* two states share an id, and validateDFA reports no duplicate state id.
C24_StateIdsUnique ==
    /\ \A j, k \in 1..Len(dfa.states) :
           j # k => dfa.states[j].id # dfa.states[k].id
    /\ DuplicateStateErrors(dfa, 1, {}) = <<>>

\* q0 has been deleted and a state added after it: generateStateId started
\* at 'q1', found it taken and went on to 'q2'.
C24_Witness ==
    /\ editor # <<>>
    /\ dfa.states = <<[id |-> "q1"], [id |-> "q2"]>>

\* C27: in the editor, after any sequence of add-state, add-transition,
\* delete-state, delete-transition, set-initial and toggle-accepting
\* operations, every transition's fromStateId and toStateId name existing
\* states, every accepting id names an existing state, and every
\* transition's symbol is in the alphabet.
C27_ReferentialIntegrity ==
    editor # <<>> =>
        /\ ~TransitionEndUnknown(dfa)
        /\ ~AcceptingUnknown(dfa)
        /\ ~TransitionSymbolUnknown(dfa)

\* C28: in the editor, after any sequence of add-transition and
\* delete-transition operations, all transitions of the automaton have
\* pairwise distinct ids.
C28_TransitionIdsDistinct ==
    editor # <<>> =>
        \A j, k \in 1..Len(dfa.transitions) :
            j # k => dfa.transitions[j].id # dfa.transitions[k].id

\* C29: in the editor, after any sequence of add-state, delete-state and
\* set-initial operations starting from createEmptyDFA(), whenever the
\* automaton has at least one state its initialStateId names an existing
\* state.
C29_InitialNamesState ==
    (editor # <<>> /\ Len(dfa.states) > 0) =>
        StateExists(dfa, dfa.initialStateId)

-----------------------------------------------------------------------------
(* Claims about the step simulator *)

StoppedAtEnd == ~sim.isPlaying /\ sim.currentStepIndex = Len(steps) - 1

\* C30: once Play is pressed on a non-empty trace and the timer ticks keep
\* firing with no further user action, auto-play eventually stops: isPlaying
\* becomes false with currentStepIndex = steps.length - 1; until then the
\* index advances by one per tick, and it never exceeds steps.length - 1.
C30_AutoPlayStops ==
    /\ \A n \in 0..MaxClicks :
           (sim.isPlaying /\ sim.clicks = n) ~> (StoppedAtEnd \/ sim.clicks < n)
    /\ [][(sim.clicks' = sim.clicks /\ sim.currentStepIndex' # sim.currentStepIndex)
              => sim.currentStepIndex' = sim.currentStepIndex + 1]_vars
    /\ [](Len(steps) > 0 => sim.currentStepIndex <= Len(steps) - 1)

\* Play was the only user action, on a trace of three steps, and two ticks
\* later the play has stopped on the last step.
C30_Witness ==
    /\ sim # <<>>
    /\ Len(steps) = 3
    /\ sim.clicks = MaxClicks - 1
    /\ sim.currentStepIndex = 2
    /\ ~sim.isPlaying
    /\ ~sim.effect

====
